---- MODULE Spec2Model ----
(***************************************************************************)
(* A model of the electricitymap parsers CA_AB.py (fetch_production,       *)
(* fetch_price, fetch_exchange) and SE.py (fetch_SE).                      *)
(*                                                                         *)
(* A state holds one fetched payload (the price report, the current supply *)
(* demand report, or the Statnett JSON feed), the wall clock, and the last *)
(* two calls made on that payload with what each returned.                 *)
(*                                                                         *)
(* Text is a sequence of one-character strings; "nbsp" stands for the      *)
(* character U+00A0.  A float is the integer value * Scale.  An instant is *)
(* a number of hours (CA_AB.py) of local wall-clock time, with its zone.   *)
(***************************************************************************)
EXTENDS Integers, Sequences, FiniteSets, TLC

\* ------------------------------------------------------------------ bounds
\* Longest raw cell text of the exhaustively enumerated feed cells.
StrMaxLen == 3
\* Most rows of a price table with freely ordered, possibly repeated labels.
MaxRows == 2
\* Most entries of the feed's Headers array.
MaxHeaders == 2
\* The wall clock runs from 0 to MaxClock.
MaxClock == 1

VARIABLES payload, now, ret, prev

vars == <<payload, now, ret, prev>>

\* ------------------------------------------------------------------- text
Digits == {"0", "1", "2", "3", "4", "5", "6", "7", "8", "9"}

DigitVal(c) ==
  CASE c = "0" -> 0 [] c = "1" -> 1 [] c = "2" -> 2 [] c = "3" -> 3
    [] c = "4" -> 4 [] c = "5" -> 5 [] c = "6" -> 6 [] c = "7" -> 7
    [] c = "8" -> 8 [] c = "9" -> 9

DigitChar(n) ==
  CASE n = 0 -> "0" [] n = 1 -> "1" [] n = 2 -> "2" [] n = 3 -> "3"
    [] n = 4 -> "4" [] n = 5 -> "5" [] n = 6 -> "6" [] n = 7 -> "7"
    [] n = 8 -> "8" [] n = 9 -> "9"

\* The code point of a character, for Python's comparison of strings.
Ord(c) ==
  CASE c = " " -> 32 [] c = "," -> 44 [] c = "-" -> 45 [] c = "." -> 46
    [] c = "/" -> 47 [] c \in Digits -> 48 + DigitVal(c) [] c = ":" -> 58
    [] c = ">" -> 62 [] c = "A" -> 65 [] c = "B" -> 66 [] c = "C" -> 67
    [] c = "K" -> 75 [] c = "N" -> 78 [] c = "O" -> 79 [] c = "S" -> 83
    [] c = "U" -> 85 [] c = "a" -> 97 [] c = "nbsp" -> 160

RECURSIVE Pow10(_)
Pow10(n) == IF n = 0 THEN 1 ELSE 10 * Pow10(n - 1)

\* Floats are kept as integers in units of 1/Scale: every text of the model
\* has at most StrMaxLen digits after the point.
Scale == Pow10(StrMaxLen)

AllDigits(s) == \A k \in 1..Len(s) : s[k] \in Digits

RECURSIVE ToNat(_)
ToNat(s) == IF s = <<>> THEN 0
            ELSE 10 * ToNat(SubSeq(s, 1, Len(s) - 1)) + DigitVal(s[Len(s)])

\* The decimal text of a natural number.
RECURSIVE NatText(_)
NatText(n) == IF n < 10 THEN <<DigitChar(n)>>
              ELSE Append(NatText(n \div 10), DigitChar(n % 10))

\* s.replace(old, ''): every occurrence of the character removed.
RECURSIVE Remove(_, _)
Remove(s, old) ==
  IF s = <<>> THEN <<>>
  ELSE IF Head(s) = old THEN Remove(Tail(s), old)
       ELSE <<Head(s)>> \o Remove(Tail(s), old)

\* s.replace(old, new) for single characters: every occurrence replaced.
Replace(s, old, new) == [k \in 1..Len(s) |-> IF s[k] = old THEN new ELSE s[k]]

\* The position of the first occurrence of c in s, 0 when there is none.
FirstPos(s, c) ==
  IF \E k \in 1..Len(s) : s[k] = c
  THEN CHOOSE k \in 1..Len(s) : s[k] = c /\ \A j \in 1..(k - 1) : s[j] # c
  ELSE 0

\* Python's < on strings: by code point, a proper prefix first.
RECURSIVE StrLess(_, _)
StrLess(a, b) ==
  IF b = <<>> THEN FALSE
  ELSE IF a = <<>> THEN TRUE
  ELSE IF Head(a) = Head(b) THEN StrLess(Tail(a), Tail(b))
  ELSE Ord(Head(a)) < Ord(Head(b))

Whitespace == {" ", "nbsp"}

RECURSIVE LStrip(_)
LStrip(s) == IF s # <<>> /\ Head(s) \in Whitespace THEN LStrip(Tail(s)) ELSE s

RECURSIVE RStrip(_)
RStrip(s) == IF s # <<>> /\ s[Len(s)] \in Whitespace
             THEN RStrip(SubSeq(s, 1, Len(s) - 1)) ELSE s

\* Python's float(text) on texts made of digits, '-', '.', blanks and characters
\* that occur in no float: surrounding white space is dropped, then an optional
\* sign, then digits with at most one point and at least one digit.  The other
\* forms float() takes (an exponent, '+', inf, nan) need characters that no text
\* of the model holds.  A failure is Python's ValueError.
float(text) ==
  LET t    == RStrip(LStrip(text))
      neg  == t # <<>> /\ Head(t) = "-"
      body == IF neg THEN Tail(t) ELSE t
      dot  == FirstPos(body, ".")
      ip   == IF dot = 0 THEN body ELSE SubSeq(body, 1, dot - 1)
      fp   == IF dot = 0 THEN <<>> ELSE SubSeq(body, dot + 1, Len(body))
  IN IF AllDigits(ip) /\ AllDigits(fp) /\ Len(ip) + Len(fp) > 0
     THEN [ok |-> TRUE,
           val |-> (IF neg THEN -1 ELSE 1)
                   * (ToNat(ip) * Scale + ToNat(fp) * Pow10(StrMaxLen - Len(fp)))]
     ELSE [ok |-> FALSE, err |-> "ValueError"]

\* ---------------------------------------------------------------- results
NoCall == [op |-> "none"]

Ok(v) == [ok |-> TRUE, val |-> v]

Raise(e) == [ok |-> FALSE, err |-> e]

\* ------------------------------------------------- CA_AB.py: the price report
ab_timezone == "Canada/Mountain"

\* Days from 1970-01-01 to the civil date y-m-d (proleptic Gregorian).
DayNumber(y, m, d) ==
  LET yy  == IF m <= 2 THEN y - 1 ELSE y
      era == yy \div 400
      yoe == yy - era * 400
      mp  == (m + 9) % 12
      doy == (153 * mp + 2) \div 5 + d - 1
      doe == yoe * 365 + yoe \div 4 - yoe \div 100 + doy
  IN era * 146097 + doe - 719468

\* The calendar days the price tables of the model are dated with.
DateSamples == {[y |-> 2020, m |-> 12, d |-> 31], [y |-> 2021, m |-> 1, d |-> 1]}

Pad(text, width) ==
  [k \in 1..(width - Len(text)) |-> "0"] \o text

\* The report's 'MM/DD/YYYY' text of a date.
DateText(D) ==
  Pad(NatText(D.m), 2) \o <<"/">> \o Pad(NatText(D.d), 2) \o <<"/">>
    \o Pad(NatText(D.y), 4)

\* The row label '<date> <hour index>' of the report's index column; padded
\* says whether the report writes the hour ending with two digits (01..24).
RowLabel(D, h, padded) ==
  DateText(D) \o <<" ">> \o (IF padded THEN Pad(NatText(h), 2) ELSE NatText(h))

\* The texts of price cells: two prices, and two texts that are no number, of
\* which read_html takes 'N/A' for a missing value.
PriceCells ==
  {<<"2", "5", ".", "5", "0">>, <<"3", "0">>, <<"N", "/", "A">>, <<"-">>}

HourIndices == 1..24

\* The hours of the rows of multi-row tables: a one-digit and a two-digit one.
SampleHours == {2, 10}

PriceRows(hours, padded) ==
  {[label |-> RowLabel(D, h, padded), price |-> c] :
     D \in DateSamples, h \in hours, c \in PriceCells}

\* The price tables: up to MaxRows different rows in any source order, labels
\* repeated or not (the report has one row per price change, several in one
\* hour), and every one-row table of every hour index.
PriceTables ==
  UNION {
    UNION {{t \in [1..n -> PriceRows(SampleHours, padded)] :
              \A j \in 1..n, k \in 1..n : t[j] = t[k] => j = k} :
           n \in 0..MaxRows}
      \cup {<<r>> : r \in PriceRows(HourIndices, padded)} :
    padded \in BOOLEAN}

\* The cell texts pandas.read_html reads as missing (its default NA strings).
NaStrings ==
  {<<>>,
   <<"#", "N", "/", "A">>,
   <<"#", "N", "/", "A", " ", "N", "/", "A">>,
   <<"#", "N", "A">>,
   <<"-", "1", ".", "#", "I", "N", "D">>,
   <<"-", "1", ".", "#", "Q", "N", "A", "N">>,
   <<"-", "N", "a", "N">>,
   <<"-", "n", "a", "n">>,
   <<"1", ".", "#", "I", "N", "D">>,
   <<"1", ".", "#", "Q", "N", "A", "N">>,
   <<"N", "/", "A">>,
   <<"N", "A">>,
   <<"N", "U", "L", "L">>,
   <<"N", "a", "N">>,
   <<"n", "/", "a">>,
   <<"n", "a", "n">>,
   <<"n", "u", "l", "l">>}

\* A float that is not a number, and a float that is one (in units of 1/Scale).
NaN == [nan |-> TRUE, val |-> 0]

Num(n) == [nan |-> FALSE, val |-> n]

\* A cell of a frame pandas.read_html built: nan for an NA string, otherwise
\* the cell's text (a number or a str, which float() reads alike).
ReadHtmlCell(text) ==
  IF text \in NaStrings THEN [nan |-> TRUE] ELSE [nan |-> FALSE, text |-> text]

\* float(value) of such a cell: float(nan) is nan and does not raise.
FloatOfCell(value) ==
  IF value.nan THEN Ok(NaN)
  ELSE LET f == float(value.text) IN IF f.ok THEN Ok(Num(f.val)) ELSE f

isfloat(value) == FloatOfCell(value).ok

\* rowIndex.split(' ')[1]: the text between the first blank and the next one.
SplitSecond(label) ==
  LET sp   == FirstPos(label, " ")
      rest == SubSeq(label, sp + 1, Len(label))
      nx   == FirstPos(rest, " ")
  IN IF sp = 0 THEN Raise("IndexError")
     ELSE Ok(IF nx = 0 THEN rest ELSE SubSeq(rest, 1, nx - 1))

\* int(text) for an unsigned decimal text.
int(text) ==
  IF text # <<>> /\ AllDigits(text) THEN Ok(ToNat(text)) ELSE Raise("ValueError")

\* arrow.get(rowIndex, 'MM/DD/YYYY'): the date the label starts with (arrow
\* searches the text for the format and ignores what follows the match), at
\* 00:00.  The result counts hours since 1970-01-01 00:00 of the wall clock.
ArrowGetDate(label) ==
  LET mm == SubSeq(label, 1, 2)
      dd == SubSeq(label, 4, 5)
      yy == SubSeq(label, 7, 10)
  IN IF Len(label) >= 10 /\ label[3] = "/" /\ label[6] = "/"
        /\ AllDigits(mm) /\ AllDigits(dd) /\ AllDigits(yy)
     THEN Ok(DayNumber(ToNat(yy), ToNat(mm), ToNat(dd)) * 24)
     ELSE Raise("ParserError")

\* A slip: the 1-based hour index taken as the offset.
HourOffsetOneBased(hourIndex) == hourIndex

\* hours = int(rowIndex.split(' ')[1]) - 1
HourOffset(hourIndex) == hourIndex - 1

\* One PriceRecord: .replace(hours=hours, tzinfo=ab_timezone) moves the
\* midnight by hours (a plural unit shifts) and names the zone.
PriceRecord(midnight, hours, country_code, price) ==
  [datetime    |-> [hours |-> midnight + hours, tz |-> ab_timezone],
   countryCode |-> country_code,
   currency    |-> "CAD",
   source      |-> "ets.aeso.ca",
   price       |-> price]

\* data[rowIndex] = {...}: the entry of the key set or replaced.
DictSet(data, key, value) ==
  [k \in DOMAIN data \cup {key} |-> IF k = key THEN value ELSE data[k]]

\* The loop over prices.iterrows() from row k on, data being the dict so far.
RECURSIVE PriceLoop(_, _, _, _)
PriceLoop(rows, k, data, country_code) ==
  IF k > Len(rows) THEN Ok(data)
  ELSE
    LET rowIndex == rows[k].label
        price    == ReadHtmlCell(rows[k].price)
    IN IF isfloat(price)
       THEN LET tok == SplitSecond(rowIndex)
                hi  == IF tok.ok THEN int(tok.val) ELSE tok
                day == ArrowGetDate(rowIndex)
            IN IF ~hi.ok THEN hi
               ELSE IF ~day.ok THEN day
               ELSE PriceLoop(rows, k + 1,
                      DictSet(data, rowIndex,
                        PriceRecord(day.val, HourOffset(hi.val), country_code,
                                    FloatOfCell(price).val)),
                      country_code)
       ELSE PriceLoop(rows, k + 1, data, country_code)

\* sorted(keys): ascending in Python's order of strings.
RECURSIVE Sorted(_)
Sorted(keys) ==
  IF keys = {} THEN <<>>
  ELSE LET m == CHOOSE x \in keys : \A y \in keys \ {x} : StrLess(x, y)
       IN <<m>> \o Sorted(keys \ {m})

EmptyDict == [k \in {} |-> 0]

fetch_price(rows, country_code) ==
  LET data == PriceLoop(rows, 1, EmptyDict, country_code)
  IN IF ~data.ok THEN data
     ELSE LET keys == Sorted(DOMAIN data.val)
          IN Ok([k \in 1..Len(keys) |-> data.val[keys[k]]])

\* ------------------------------- CA_AB.py: the current supply demand report
\* What take(s, c) gives: the text before the first c and the text after it.
TakeUntil(s, c) ==
  LET p == FirstPos(s, c)
  IN IF p = 0 THEN [found |-> FALSE, tok |-> s, rest |-> <<>>]
     ELSE [found |-> TRUE, tok |-> SubSeq(s, 1, p - 1),
           rest |-> SubSeq(s, p + 1, Len(s))]

\* The lower-case form of a letter (strptime matches names in any case).
Lower(c) ==
  CASE c = "A" -> "a" [] c = "B" -> "b" [] c = "C" -> "c" [] c = "D" -> "d"
    [] c = "E" -> "e" [] c = "F" -> "f" [] c = "G" -> "g" [] c = "H" -> "h"
    [] c = "I" -> "i" [] c = "J" -> "j" [] c = "K" -> "k" [] c = "L" -> "l"
    [] c = "M" -> "m" [] c = "N" -> "n" [] c = "O" -> "o" [] c = "P" -> "p"
    [] c = "Q" -> "q" [] c = "R" -> "r" [] c = "S" -> "s" [] c = "T" -> "t"
    [] c = "U" -> "u" [] c = "V" -> "v" [] c = "W" -> "w" [] c = "X" -> "x"
    [] c = "Y" -> "y" [] c = "Z" -> "z" [] OTHER -> c

\* strptime's %b: the month of an abbreviated English month name in any
\* case, 0 for none.
MonthNumber(tok) ==
  LET t == [k \in 1..Len(tok) |-> Lower(tok[k])]
  IN CASE t = <<"j", "a", "n">> -> 1  [] t = <<"f", "e", "b">> -> 2
       [] t = <<"m", "a", "r">> -> 3  [] t = <<"a", "p", "r">> -> 4
       [] t = <<"m", "a", "y">> -> 5  [] t = <<"j", "u", "n">> -> 6
       [] t = <<"j", "u", "l">> -> 7  [] t = <<"a", "u", "g">> -> 8
       [] t = <<"s", "e", "p">> -> 9  [] t = <<"o", "c", "t">> -> 10
       [] t = <<"n", "o", "v">> -> 11 [] t = <<"d", "e", "c">> -> 12
       [] OTHER -> 0

\* A field of one or two digits within lo..hi (strptime's %d, %H, %M).
TwoDigitField(tok, lo, hi) ==
  Len(tok) \in {1, 2} /\ AllDigits(tok) /\ ToNat(tok) >= lo /\ ToNat(tok) <= hi

\* The days of month m of year y (datetime refuses a day beyond them).
DaysInMonth(y, m) ==
  IF m = 2
  THEN IF (y % 4 = 0 /\ y % 100 # 0) \/ y % 400 = 0 THEN 29 ELSE 28
  ELSE IF m \in {4, 6, 9, 11} THEN 30 ELSE 31

\* convert_time_str: strptime(ts, ' %b %d, %Y %H:%M') localized to
\* Canada/Mountain.  A blank of the format stands for a run of one or more
\* white-space characters; the whole of ts must match, and the fields must
\* make a date; ValueError otherwise.
convert_time_str(ts) ==
  LET s1   == LStrip(ts)
      mon  == SubSeq(s1, 1, 3)
      r1   == SubSeq(s1, 4, Len(s1))
      s2   == LStrip(r1)
      day  == TakeUntil(s2, ",")
      s3   == LStrip(day.rest)
      year == SubSeq(s3, 1, 4)
      r3   == SubSeq(s3, 5, Len(s3))
      s4   == LStrip(r3)
      hour == TakeUntil(s4, ":")
      min  == hour.rest
  IN IF /\ Len(s1) < Len(ts)
        /\ Len(s1) >= 3 /\ MonthNumber(mon) # 0
        /\ Len(s2) < Len(r1)
        /\ day.found /\ TwoDigitField(day.tok, 1, 31)
        /\ Len(s3) < Len(day.rest)
        /\ Len(s3) >= 4 /\ AllDigits(year) /\ ToNat(year) >= 1
        /\ Len(s4) < Len(r3)
        /\ hour.found /\ TwoDigitField(hour.tok, 0, 23)
        /\ TwoDigitField(min, 0, 59)
        /\ ToNat(day.tok) <= DaysInMonth(ToNat(year), MonthNumber(mon))
     THEN Ok([year |-> ToNat(year), month |-> MonthNumber(mon),
              day |-> ToNat(day.tok), hour |-> ToNat(hour.tok),
              minute |-> ToNat(min), tz |-> "Canada/Mountain"])
     ELSE Raise("ValueError")

Absent == <<"absent">>

\* The text of the report's 'Last Update' cell: two well-formed ones, one in
\* another format, or no such cell in the page (Absent).
LastUpdateCells ==
  {<<"L", "a", "s", "t", " ", "U", "p", "d", "a", "t", "e", " ", ":", " ",
     "O", "c", "t", " ", "3", "1", ",", " ", "2", "0", "1", "7", " ",
     "1", "4", ":", "3", "2">>,
   <<"L", "a", "s", "t", " ", "U", "p", "d", "a", "t", "e", " ", ":", " ",
     "J", "a", "n", " ", "0", "1", ",", " ", "2", "0", "2", "1", " ",
     "0", "0", ":", "0", "5">>,
   <<"L", "a", "s", "t", " ", "U", "p", "d", "a", "t", "e", " ", ":", " ",
     "2", "0", "1", "7", "-", "1", "0", "-", "3", "1">>,
   Absent}

\* Lines 58-60: the text after the first ':' of the 'Last Update' cell, parsed.
LastUpdate(cell) ==
  IF cell = Absent THEN Raise("AttributeError")
  ELSE LET parts == TakeUntil(cell, ":")
       IN IF ~parts.found THEN Raise("IndexError")
          ELSE convert_time_str(parts.rest)

\* The rows of the generation table that fetch_production reads.
FuelRows == <<"COAL", "GAS", "HYDRO", "WIND", "OTHER">>

\* The key of the returned mappings each row is stored under.
FuelKey(row) ==
  CASE row = "COAL" -> "coal" [] row = "GAS" -> "gas" [] row = "HYDRO" -> "hydro"
    [] row = "WIND" -> "wind" [] row = "OTHER" -> "unknown"

FuelLabels == {FuelRows[k] : k \in 1..Len(FuelRows)}

FuelBase(row) ==
  CASE row = "COAL" -> 10 [] row = "GAS" -> 20 [] row = "HYDRO" -> 30
    [] row = "WIND" -> 40 [] row = "OTHER" -> 50

\* The cell texts (TNG, MC) a row of the generation table may hold: its own
\* two numbers, zero generation, or a dash or 'N/A' for the generation.
GenCells(row) ==
  {[TNG |-> NatText(FuelBase(row)), MC |-> NatText(FuelBase(row) + 5)],
   [TNG |-> <<"0">>, MC |-> NatText(FuelBase(row) + 5)],
   [TNG |-> <<"-">>, MC |-> NatText(FuelBase(row) + 5)],
   [TNG |-> <<"N", "/", "A">>, MC |-> NatText(FuelBase(row) + 5)]}

\* The generation tables: any of the five rows may be missing.
GenTables ==
  UNION {{t \in [present -> UNION {GenCells(r) : r \in present}] :
            \A r \in present : t[r] \in GenCells(r)} :
         present \in SUBSET FuelLabels}

\* A slip: a missing row read as zero instead of raising.
SeriesGetOrZero(table, column, row) ==
  IF row \in DOMAIN table THEN Ok(ReadHtmlCell(table[row][column]))
  ELSE Ok(ReadHtmlCell(<<"0">>))

\* series[row] of column `column` (df['TNG']['COAL']): KeyError when the
\* table has no row of that label.
SeriesGet(table, column, row) ==
  IF row \in DOMAIN table THEN Ok(ReadHtmlCell(table[row][column]))
  ELSE Raise("KeyError")

\* float(series[row])
FloatAt(table, column, row) ==
  LET cell == SeriesGet(table, column, row)
  IN IF cell.ok THEN FloatOfCell(cell.val) ELSE cell

\* The dict display {'coal': float(series['COAL']), ...}, evaluated in source
\* order from entry k on; the first lookup or conversion that raises ends it.
RECURSIVE FuelDict(_, _, _, _)
FuelDict(table, column, k, acc) ==
  IF k > Len(FuelRows) THEN Ok(acc)
  ELSE LET v == FloatAt(table, column, FuelRows[k])
       IN IF ~v.ok THEN v
          ELSE FuelDict(table, column, k + 1,
                        DictSet(acc, FuelKey(FuelRows[k]), v.val))

fetch_production(page, country_code) ==
  LET dt         == LastUpdate(page.lastUpdate)
      production == FuelDict(page.generation, "TNG", 1, EmptyDict)
      capacity   == FuelDict(page.generation, "MC", 1, EmptyDict)
  IN IF ~dt.ok THEN dt
     ELSE IF ~production.ok THEN production
     ELSE IF ~capacity.ok THEN capacity
     ELSE Ok([datetime    |-> dt.val,
              countryCode |-> country_code,
              production  |-> production.val,
              capacity    |-> capacity.val,
              source      |-> "ets.aeso.ca"])

\* Region codes, as text.
CA_AB == <<"C", "A", "-", "A", "B">>

CA_BC == <<"C", "A", "-", "B", "C">>

CA_SK == <<"C", "A", "-", "S", "K">>

US == <<"U", "S">>

RegionCodes == {CA_AB, CA_BC, CA_SK, US}

\* The rows of the interchange table that fetch_exchange reads.
InterchangeRows == {"British Columbia", "Saskatchewan", "Montana"}

\* The cell texts an interchange row may hold.
InterchangeCells(row) ==
  CASE row = "British Columbia" -> {<<"1", "2">>, <<"-">>, <<"N", "/", "A">>}
    [] row = "Saskatchewan" -> {<<"-", "7">>}
    [] row = "Montana" -> {<<"3", "0", "0">>, <<"-", "1", "5">>}

\* The interchange tables: one of the three rows may be missing.
InterchangeTables ==
  UNION {{t \in [present -> UNION {InterchangeCells(r) : r \in present}] :
            \A r \in present : t[r] \in InterchangeCells(r)} :
         present \in {p \in SUBSET InterchangeRows : Cardinality(p) >= 2}}

\* '->'.join(pair)
JoinArrow(pair) == pair[1] \o <<"-", ">">> \o pair[2]

\* A slip: the pair joined in the order of the arguments.
UnsortedPair(country_code1, country_code2) == <<country_code1, country_code2>>

\* sorted([country_code1, country_code2])
SortedPair(country_code1, country_code2) ==
  IF StrLess(country_code2, country_code1)
  THEN <<country_code2, country_code1>>
  ELSE <<country_code1, country_code2>>

\* A slip: the entry of the Montana tie line left out of flows.
FlowFieldsWithoutUS ==
  [k \in {JoinArrow(<<CA_AB, CA_BC>>), JoinArrow(<<CA_AB, CA_SK>>)} |->
     IF k = JoinArrow(<<CA_AB, CA_BC>>) THEN "British Columbia"
     ELSE "Saskatchewan"]

\* The keys of flows and the interchange row each is read from.
FlowFields ==
  [k \in {JoinArrow(<<CA_AB, CA_BC>>), JoinArrow(<<CA_AB, CA_SK>>),
          JoinArrow(<<CA_AB, US>>)} |->
     IF k = JoinArrow(<<CA_AB, CA_BC>>) THEN "British Columbia"
     ELSE IF k = JoinArrow(<<CA_AB, CA_SK>>) THEN "Saskatchewan"
     ELSE "Montana"]

\* fetch_exchange on the interchange table, called when the wall clock shows
\* clock.  flows is built first, reading all three rows; arrow.now() stamps
\* the record.
fetch_exchange(interchange, country_code1, country_code2, clock) ==
  LET sortedCountryCodes == JoinArrow(SortedPair(country_code1, country_code2))
  IN IF \E k \in DOMAIN FlowFields : FlowFields[k] \notin DOMAIN interchange
     THEN Raise("KeyError")
     ELSE IF sortedCountryCodes \notin DOMAIN FlowFields
     THEN Raise("NotImplementedError")
     ELSE LET netFlow == FloatOfCell(ReadHtmlCell(
                           interchange[FlowFields[sortedCountryCodes]]))
          IN IF ~netFlow.ok THEN netFlow
             ELSE Ok([datetime |-> [clock |-> clock, tz |-> ab_timezone],
                      sortedCountryCodes |-> sortedCountryCodes,
                      netFlow |-> netFlow.val,
                      source |-> "ets.aeso.ca"])

\* ------------------------------------------------ SE.py: the Statnett feed
COUNTRY_CODE == "SE"

\* The metric arrays fetch_SE reads, in the order it reads them.
Metrics ==
  <<"ConsumptionData", "ThermalData", "NotSpecifiedData", "WindData",
    "NuclearData", "HydroData">>

MetricNames == {Metrics[k] : k \in 1..Len(Metrics)}

\* The number the feed publishes for a metric in column j (j = 1 first).
FeedValue(metric, j) ==
  CASE metric = "ConsumptionData" -> 7000 + j
    [] metric = "ThermalData" -> 100 * j
    [] metric = "NotSpecifiedData" -> 10 * j
    [] metric = "WindData" -> 3000 + j
    [] metric = "NuclearData" -> 4000 + j
    [] metric = "HydroData" -> 6000 + j

\* The feed's text of a number: thousands are set off by a no-break space
\* (grouped) or not.
FeedText(n, grouped) ==
  IF grouped /\ n >= 1000
  THEN NatText(n \div 1000) \o <<"nbsp">> \o Pad(NatText(n % 1000), 3)
  ELSE NatText(n)

\* A metric array of `len` cells.
FeedArray(metric, len, grouped) ==
  [j \in 1..len |-> FeedText(FeedValue(metric, j), grouped)]

\* Feeds with the region columns in any order, SE present, repeated or not
\* there: all metric arrays as long as Headers, but for one (short) cut to
\* shortLen cells.
AlignedFeeds ==
  UNION {
    {[Headers    |-> h,
      MeasuredAt |-> at,
      arrays     |-> [m \in MetricNames |->
                        FeedArray(m, IF m = short THEN shortLen ELSE Len(h),
                                  grouped)]] :
       short \in MetricNames, shortLen \in 0..Len(h), grouped \in BOOLEAN,
       at \in {1500, 2999}} :
    h \in UNION {[1..n -> {"SE", "NO"}] : n \in 0..MaxHeaders}}

\* The characters of the cells enumerated exhaustively.
CellAlphabet == {"1", "5", "-", ".", " ", "nbsp", "a"}

CellTexts == UNION {[1..n -> CellAlphabet] : n \in 0..StrMaxLen}

\* One-column feeds whose ConsumptionData cell is any text over CellAlphabet.
CellFeeds ==
  {[Headers    |-> <<"SE">>,
    MeasuredAt |-> 1500,
    arrays     |-> [m \in MetricNames |->
                      IF m = "ConsumptionData" THEN <<raw>>
                      ELSE FeedArray(m, 1, FALSE)]] :
     raw \in CellTexts}

\* A slip: the 1-based position returned.
IndexOneBased(countries, value) ==
  IF \E k \in 1..Len(countries) : countries[k] = value
  THEN Ok(FirstPos(countries, value))
  ELSE Raise("ValueError")

\* countries.index(COUNTRY_CODE): the zero-based position of the first
\* occurrence, ValueError when there is none.
Index(countries, value) ==
  IF \E k \in 1..Len(countries) : countries[k] = value
  THEN Ok(FirstPos(countries, value) - 1)
  ELSE Raise("ValueError")

\* value.replace(u'\xa0', '').replace(' ', '').replace('-', '0')
CleanCell(value) == Replace(Remove(Remove(value, "nbsp"), " "), "-", "0")

\* float(data[metric][i]['value'].replace(...)...): IndexError when the array
\* has no element i (i >= 0 is zero-based).
MetricAt(data, metric, i) ==
  IF i + 1 > Len(data.arrays[metric]) THEN Raise("IndexError")
  ELSE float(CleanCell(data.arrays[metric][i + 1]))

\* A slip: the thermal value alone.
ThermalOnly(thermal, notSpecified) == thermal

\* production 'other': the sum of the two source fields.
OtherProduction(thermal, notSpecified) == thermal + notSpecified

\* The datetime of the record: MeasuredAt / 1000 seconds of the epoch, the
\* zone named Europe/Stockholm.
MeasuredAtDatetime(measuredAt) ==
  [seconds |-> measuredAt \div 1000, tz |-> "Europe/Stockholm"]

\* The first of the results, in order, that raised; NoCall when none did.
RECURSIVE FirstRaised(_)
FirstRaised(results) ==
  IF results = <<>> THEN NoCall
  ELSE IF ~Head(results).ok THEN Head(results)
  ELSE FirstRaised(Tail(results))

\* fetch_SE on the decoded feed: the column, then the cells in source order.
fetch_SE(data) ==
  LET i == Index(data.Headers, COUNTRY_CODE)
  IN IF ~i.ok THEN i
     ELSE
       LET consumption  == MetricAt(data, "ConsumptionData", i.val)
           thermal      == MetricAt(data, "ThermalData", i.val)
           notSpecified == MetricAt(data, "NotSpecifiedData", i.val)
           wind         == MetricAt(data, "WindData", i.val)
           nuclear      == MetricAt(data, "NuclearData", i.val)
           hydro        == MetricAt(data, "HydroData", i.val)
           raised       == FirstRaised(<<consumption, thermal, notSpecified,
                                         wind, nuclear, hydro>>)
       IN IF raised # NoCall THEN raised
          ELSE Ok([countryCode |-> COUNTRY_CODE,
                   datetime    |-> MeasuredAtDatetime(data.MeasuredAt),
                   consumption |-> [other |-> consumption.val],
                   exchange    |-> EmptyDict,
                   production  |->
                     [other   |-> OtherProduction(thermal.val, notSpecified.val),
                      wind    |-> wind.val,
                      nuclear |-> nuclear.val,
                      hydro   |-> hydro.val]])

\* ------------------------------------------------------------ the machine
Payloads ==
  {[kind |-> "prices", rows |-> t] : t \in PriceTables}
    \cup {[kind |-> "generation", lastUpdate |-> u, generation |-> g] :
            u \in LastUpdateCells, g \in GenTables}
    \cup {[kind |-> "interchange", interchange |-> t] : t \in InterchangeTables}
    \cup {[kind |-> "feed", data |-> d] : d \in AlignedFeeds \cup CellFeeds}

Init ==
  /\ payload \in Payloads
  /\ now = 0
  /\ ret = NoCall
  /\ prev = NoCall

\* A call returns (or raises): it becomes the last call, the last the previous.
Return(op, args, out) ==
  /\ ret' = [op |-> op, args |-> args, out |-> out]
  /\ prev' = ret
  /\ UNCHANGED <<payload, now>>

\* The wall clock advances between calls.
Tick ==
  /\ now < MaxClock
  /\ now' = now + 1
  /\ UNCHANGED <<payload, ret, prev>>

CallPrice ==
  /\ payload.kind = "prices"
  /\ Return("fetch_price", <<"CA-AB">>, fetch_price(payload.rows, "CA-AB"))

CallProduction ==
  /\ payload.kind = "generation"
  /\ Return("fetch_production", <<"CA-AB">>, fetch_production(payload, "CA-AB"))

CallExchange ==
  /\ payload.kind = "interchange"
  /\ \E country_code1 \in RegionCodes, country_code2 \in RegionCodes :
       Return("fetch_exchange", <<country_code1, country_code2>>,
              fetch_exchange(payload.interchange, country_code1, country_code2,
                             now))

\* fetch_SE takes no argument.  Beside what it returned, the call's record
\* keeps its local i (line 11).
CallSE ==
  /\ payload.kind = "feed"
  /\ ret' = [op |-> "fetch_SE", args |-> <<>>, out |-> fetch_SE(payload.data),
             i |-> Index(payload.data.Headers, COUNTRY_CODE)]
  /\ prev' = ret
  /\ UNCHANGED <<payload, now>>

Next == Tick \/ CallPrice \/ CallProduction \/ CallExchange \/ CallSE

Spec == Init /\ [][Next]_vars

\* ------------------------------------------------------ claims: fetch_price
PriceCall == payload.kind = "prices" /\ ret.op = "fetch_price"

\* The instant of hour index h of day D: midnight of D plus h - 1 hours.
HourBucket(D, h) ==
  [hours |-> DayNumber(D.y, D.m, D.d) * 24 + (h - 1), tz |-> "Canada/Mountain"]

\* The rows of the table whose price cell is a number.
NumericRows == {k \in 1..Len(payload.rows) : float(payload.rows[k].price).ok}

\* The rows of the table fetch_price makes a record of: those whose cell, as
\* read_html delivers it, float() takes.
EmittedRows ==
  {k \in 1..Len(payload.rows) : isfloat(ReadHtmlCell(payload.rows[k].price))}

\* C1 (as claimed): the records fetch_price returns are in strictly ascending
\* order of their instants, whatever the order of the rows in the source.
C1_SortedByInstant ==
  (PriceCall /\ ret.out.ok) =>
    \A k \in 1..(Len(ret.out.val) - 1) :
      ret.out.val[k].datetime.hours < ret.out.val[k + 1].datetime.hours

\* C2 (as claimed): fetch_price never raises on a non-numeric price cell, and
\* returns exactly one record for every row whose price cell is numeric (the
\* record of that row's hour and price) and none for the other rows.
C2_OneRecordPerNumericRow ==
  PriceCall =>
    /\ ret.out.ok
    /\ Len(ret.out.val) = Cardinality(NumericRows)
    /\ \A k \in NumericRows :
         \E j \in 1..Len(ret.out.val) :
           /\ ret.out.val[j].price = Num(float(payload.rows[k].price).val)
           /\ \E D \in DateSamples, h \in HourIndices, padded \in BOOLEAN :
                /\ payload.rows[k].label = RowLabel(D, h, padded)
                /\ ret.out.val[j].datetime = HourBucket(D, h)

\* C6: a row labelled with date D and hour index h in 1..24 that yields a
\* record (its price cell is one float() takes) yields a
\* record at midnight of D (Canada/Mountain) plus h - 1 hours, and every
\* record returned is such a one: on the calendar day of its row, between
\* 00:00 (h = 1) and 23:00 (h = 24).
C6_HourBucket ==
  PriceCall =>
    /\ ret.out.ok
    /\ \A k \in EmittedRows :
         \A D \in DateSamples, h \in HourIndices, padded \in BOOLEAN :
           payload.rows[k].label = RowLabel(D, h, padded) =>
             \E j \in 1..Len(ret.out.val) :
               ret.out.val[j].datetime = HourBucket(D, h)
    /\ \A j \in 1..Len(ret.out.val) :
         \E k \in EmittedRows, D \in DateSamples, h \in HourIndices,
            padded \in BOOLEAN :
           /\ payload.rows[k].label = RowLabel(D, h, padded)
           /\ ret.out.val[j].datetime = HourBucket(D, h)
           /\ ret.out.val[j].datetime.hours \div 24 = DayNumber(D.y, D.m, D.d)
           /\ ret.out.val[j].datetime.hours % 24 = h - 1

\* C6's case: a row of hour index 24 has been turned into a record at 23:00.
C6_Witness ==
  /\ PriceCall
  /\ ret.out.ok
  /\ \E k \in EmittedRows, D \in DateSamples :
       /\ payload.rows[k].label = RowLabel(D, 24, TRUE)
       /\ \E j \in 1..Len(ret.out.val) :
            ret.out.val[j].datetime.hours = DayNumber(D.y, D.m, D.d) * 24 + 23

\* --------------------------------------------------- claims: fetch_exchange
ExchangeCall(c) == payload.kind = "interchange" /\ c.op = "fetch_exchange"

\* The pair table of the claims: sorted key -> the source field it publishes.
PairTable ==
  [k \in {<<"C", "A", "-", "A", "B", "-", ">", "C", "A", "-", "B", "C">>,
          <<"C", "A", "-", "A", "B", "-", ">", "C", "A", "-", "S", "K">>,
          <<"C", "A", "-", "A", "B", "-", ">", "U", "S">>} |->
     IF k[Len(k)] = "C" THEN "British Columbia"
     ELSE IF k[Len(k)] = "K" THEN "Saskatchewan" ELSE "Montana"]

\* The two codes in lexicographic order, joined by '->'.
SortedKey(a, b) ==
  IF StrLess(a, b) \/ a = b THEN a \o <<"-", ">">> \o b
  ELSE b \o <<"-", ">">> \o a

AllRowsPresent == InterchangeRows \subseteq DOMAIN payload.interchange

\* C3: fetch_exchange is pair-symmetric and sign-preserving.  A call that
\* returns gives the sorted key of its two codes and, as netFlow, the value the
\* page publishes in the field of that sorted pair, sign included; and two
\* calls on the same page with the codes swapped both fail, or both return
\* the same key and the same netFlow.
C3_PairSymmetric ==
  /\ (ExchangeCall(ret) /\ ret.out.ok) =>
       LET key == SortedKey(ret.args[1], ret.args[2])
       IN /\ ret.out.val.sortedCountryCodes = key
          /\ key \in DOMAIN PairTable
          /\ float(payload.interchange[PairTable[key]]).ok =>
               ret.out.val.netFlow
                 = Num(float(payload.interchange[PairTable[key]]).val)
  /\ (ExchangeCall(ret) /\ ExchangeCall(prev)
        /\ prev.args = <<ret.args[2], ret.args[1]>>) =>
       /\ prev.out.ok = ret.out.ok
       /\ ret.out.ok =>
            /\ prev.out.val.sortedCountryCodes = ret.out.val.sortedCountryCodes
            /\ prev.out.val.netFlow = ret.out.val.netFlow

\* C3's case: (CA-SK, CA-AB) then (CA-AB, CA-SK) were asked of a page that
\* publishes a negative flow, and both calls returned it.
C3_Witness ==
  /\ ExchangeCall(ret) /\ ExchangeCall(prev)
  /\ prev.args = <<CA_SK, CA_AB>> /\ ret.args = <<CA_AB, CA_SK>>
  /\ prev.out.ok /\ ret.out.ok
  /\ ret.out.val.netFlow = Num(-7 * Scale)
  /\ prev.out.val.netFlow = Num(-7 * Scale)

\* C4 (as claimed): fetch_exchange raises the unsupported-pair error exactly
\* when the sorted key of the two codes is not in the pair table, and returns
\* a record with that key for every pair whose sorted key is in the table.
C4_UnsupportedExactly ==
  ExchangeCall(ret) =>
    LET key == SortedKey(ret.args[1], ret.args[2])
    IN /\ (ret.out = Raise("NotImplementedError")) <=> (key \notin DOMAIN PairTable)
       /\ key \in DOMAIN PairTable =>
            (ret.out.ok /\ ret.out.val.sortedCountryCodes = key)

\* C4 (amended): on a page whose interchange table has the three rows British
\* Columbia, Saskatchewan and Montana, fetch_exchange raises the
\* unsupported-pair error exactly when the sorted key is not in the pair
\* table, and for a key in the table returns a record with that key when the
\* cell of its field is a number or a text read_html takes for a missing value
\* (netFlow is then nan), and raises ValueError for any other text; on a
\* page that lacks any of the three rows every call raises KeyError, whatever
\* the pair.
C4_UnsupportedGivenRows ==
  ExchangeCall(ret) =>
    LET key == SortedKey(ret.args[1], ret.args[2])
    IN /\ AllRowsPresent =>
            /\ (ret.out = Raise("NotImplementedError"))
                 <=> (key \notin DOMAIN PairTable)
            /\ key \in DOMAIN PairTable =>
                 IF \/ float(payload.interchange[PairTable[key]]).ok
                    \/ payload.interchange[PairTable[key]] \in NaStrings
                 THEN ret.out.ok /\ ret.out.val.sortedCountryCodes = key
                 ELSE ret.out = Raise("ValueError")
       /\ ~AllRowsPresent => ret.out = Raise("KeyError")

\* C4's case: on a full table an unconnected pair was refused.
C4_Witness ==
  /\ ExchangeCall(ret)
  /\ AllRowsPresent
  /\ ret.args = <<CA_SK, CA_BC>>
  /\ ret.out = Raise("NotImplementedError")

\* ------------------------------------------------- claims: fetch_production
ProductionCall == payload.kind = "generation" /\ ret.op = "fetch_production"

FuelKeys == {"coal", "gas", "hydro", "wind", "unknown"}

\* The row label each key of the record is read from.
RowOfKey(key) ==
  CASE key = "coal" -> "COAL" [] key = "gas" -> "GAS" [] key = "hydro" -> "HYDRO"
    [] key = "wind" -> "WIND" [] key = "unknown" -> "OTHER"

\* C8: fetch_production never defaults a fuel.  Either all five rows COAL,
\* GAS, HYDRO, WIND, OTHER are in the generation table and the record's
\* production and capacity hold exactly the keys coal, gas, hydro, wind,
\* unknown with the TNG and MC values of those rows (nan where read_html took
\* the cell for missing), or the call raises.
C8_NoSilentDefault ==
  ProductionCall =>
    \/ ~ret.out.ok
    \/ /\ \A key \in FuelKeys : RowOfKey(key) \in DOMAIN payload.generation
       /\ DOMAIN ret.out.val.production = FuelKeys
       /\ DOMAIN ret.out.val.capacity = FuelKeys
       /\ \A key \in FuelKeys :
            /\ ret.out.val.production[key]
                 = IF payload.generation[RowOfKey(key)].TNG \in NaStrings
                   THEN NaN
                   ELSE Num(float(payload.generation[RowOfKey(key)].TNG).val)
            /\ ret.out.val.capacity[key]
                 = Num(float(payload.generation[RowOfKey(key)].MC).val)

\* C8's case: a page with a well-formed time but without its WIND row was
\* read, and the call raised.
C8_Witness ==
  /\ ProductionCall
  /\ LastUpdate(payload.lastUpdate).ok
  /\ DOMAIN payload.generation = {"COAL", "GAS", "HYDRO", "OTHER"}
  /\ \A r \in DOMAIN payload.generation : float(payload.generation[r].TNG).ok
  /\ ret.out = Raise("KeyError")

\* ------------------------------------------------------ claims: every call
\* C10 (as claimed): two calls of the same operation on the same payload with
\* the same arguments return identical records, whatever the wall clock shows
\* at each call.
C10_PureOfPayload ==
  (prev.op # "none" /\ prev.op = ret.op /\ prev.args = ret.args) =>
    prev.out = ret.out

\* ----------------------------------------------------------- claims: fetch_SE
FeedCall == payload.kind = "feed" /\ ret.op = "fetch_SE"

\* The position (1 first) of the first 'SE' in Headers, 0 when there is none.
TargetPos == FirstPos(payload.data.Headers, "SE")

\* Every metric array has an element in the target's column.
ColumnCovered ==
  \A m \in MetricNames : Len(payload.data.arrays[m]) >= TargetPos

\* The reference normalization of C5: blanks and no-break spaces removed,
\* then 0.0 for the bare '-', the decimal value (sign included) of a decimal
\* number, and a failure for anything else.
ReferenceNumber(raw) ==
  LET t == SelectSeq(raw, LAMBDA c : c \notin {" ", "nbsp"})
  IN IF t = <<"-">> THEN [ok |-> TRUE, val |-> 0] ELSE float(t)

\* The cell of a metric in the target's column.
TargetCell(m) == payload.data.arrays[m][TargetPos]

\* C5 (as claimed): the value fetch_SE gives every cell it reads is the
\* reference normalization of the cell's text, and the call fails when the
\* reference fails on one of them.
C5_NormalizeAgrees ==
  (FeedCall /\ TargetPos # 0 /\ ColumnCovered) =>
    IF \A m \in MetricNames : ReferenceNumber(TargetCell(m)).ok
    THEN /\ ret.out.ok
         /\ ret.out.val.consumption.other
              = ReferenceNumber(TargetCell("ConsumptionData")).val
         /\ ret.out.val.production.wind
              = ReferenceNumber(TargetCell("WindData")).val
         /\ ret.out.val.production.nuclear
              = ReferenceNumber(TargetCell("NuclearData")).val
         /\ ret.out.val.production.hydro
              = ReferenceNumber(TargetCell("HydroData")).val
    ELSE ~ret.out.ok

\* C7: the column fetch_SE reads is the zero-based index of the first 'SE' in
\* Headers; when Headers has no 'SE' the lookup raises and the call returns
\* no record.
C7_FindColumn ==
  FeedCall =>
    IF \E k \in 1..Len(payload.data.Headers) : payload.data.Headers[k] = "SE"
    THEN /\ ret.i.ok
         /\ ret.i.val \in 0..(Len(payload.data.Headers) - 1)
         /\ payload.data.Headers[ret.i.val + 1] = "SE"
         /\ \A k \in 1..ret.i.val : payload.data.Headers[k] # "SE"
    ELSE /\ ret.i = Raise("ValueError")
         /\ ret.out = Raise("ValueError")

\* C7's case: the target in the second place of ['NO', 'SE'] was found at 1.
C7_Witness ==
  /\ FeedCall
  /\ payload.data.Headers = <<"NO", "SE">>
  /\ ret.i = Ok(1)
  /\ ret.out.ok

\* The value the code gives a cell: its text freed of blanks, no-break spaces
\* and with '-' read as '0', as a float.
Normalized(m) == float(CleanCell(TargetCell(m))).val

\* C9: every value fetch_SE returns comes from the column of the target in
\* Headers.  production 'other' is the sum of the normalized ThermalData and
\* NotSpecifiedData cells of that column; wind, nuclear, hydro and consumption
\* are the normalized cells of their own arrays in it; and the call fails when
\* a metric array is too short to hold that column.
C9_AlignedColumn ==
  (FeedCall /\ TargetPos # 0) =>
    /\ ~ColumnCovered => ~ret.out.ok
    /\ ret.out.ok =>
         /\ ret.out.val.production.other
              = Normalized("ThermalData") + Normalized("NotSpecifiedData")
         /\ ret.out.val.production.wind = Normalized("WindData")
         /\ ret.out.val.production.nuclear = Normalized("NuclearData")
         /\ ret.out.val.production.hydro = Normalized("HydroData")
         /\ ret.out.val.consumption.other = Normalized("ConsumptionData")

\* C9's case: Headers ['SE', 'NO'], ThermalData ['100', '200'],
\* NotSpecifiedData ['10', '20'] gave 'other' = 110.0.
C9_Witness ==
  /\ FeedCall
  /\ payload.data.Headers = <<"SE", "NO">>
  /\ payload.data.arrays["ThermalData"]
       = << <<"1", "0", "0">>, <<"2", "0", "0">> >>
  /\ payload.data.arrays["NotSpecifiedData"] = << <<"1", "0">>, <<"2", "0">> >>
  /\ ret.out.ok
  /\ ret.out.val.production.other = 110 * Scale

====
